---- MODULE Spec2Model ----
(***************************************************************************)
(* Model of the Whisper plugin's note-scanning-and-transcription pipeline  *)
(* (src/main.ts, class Whisper, lines 15-352).                             *)
(*                                                                         *)
(* Text is a sequence of symbols.  The multi-character literals the code   *)
(* searches for or inserts ("![[", "]]", ".m4a", "#transcribed", "\n",   *)
(* "/", " ") are one symbol each; every other symbol is an opaque word.   *)
(***************************************************************************)
EXTENDS Integers, Sequences, FiniteSets, TLC

OPEN  == "![["
CLOSE == "]]"
EXT   == ".m4a"
MARK  == "#transcribed"
NL    == "\n"
SP    == " "
SLASH == "/"
\* "$&" in the replacement argument of String.prototype.replace stands for
\* the matched substring.
DOLLAR_AMP == "$&"
\* `${null}` in a template literal
NULL_TEXT == <<"null">>
\* the directory getAudioBlob reads from
ATTACHMENTS == "/Attachements/"

\* null: a value that is no text (no text holds this symbol)
Null == <<"NULL">>

\* `if (x)` on a string or null: null and the empty string are falsy
Truthy(x) == x # Null /\ x # <<>>

Max(x, y) == IF x >= y THEN x ELSE y
Min(x, y) == IF x <= y THEN x ELSE y

(***************************************************************************)
(* Text helpers                                                            *)
(***************************************************************************)
\* c[i..j] holds no line terminator ("." of the regex does not match "\n")
NoNL(c, i, j) == \A k \in i..j : c[k] # NL

\* (?!.*#transcribed) evaluated at position k: FALSE iff a marker follows on
\* the same line
MarkAhead(c, k) ==
    \E j \in k..Len(c) : c[j] = MARK /\ NoNL(c, k, j - 1)

\* The end q of the lazy capture (.*?\.m4a) of a match that starts at p, or 0.
\* Lazy quantifier with backtracking: the smallest q that lets the rest of
\* the pattern (the closing "]]" and the negative lookahead) succeed.
CaptureEnd(c, p) ==
    LET ok(q) == /\ c[q] = EXT
                 /\ q + 1 <= Len(c)
                 /\ c[q + 1] = CLOSE
                 /\ NoNL(c, p + 1, q - 1)
                 /\ ~MarkAhead(c, q + 2)
        qs == {q \in (p + 1)..Len(c) : ok(q)}
    IN  IF c[p] = OPEN /\ qs # {}
        THEN CHOOSE q \in qs : \A r \in qs : q <= r
        ELSE 0

\* content.matchAll(audioFilePattern): the matches left to right, each one
\* searched from the end of the previous one; a match is [start, end].
RECURSIVE MatchesFrom(_, _)
MatchesFrom(c, p) ==
    IF p > Len(c) THEN <<>>
    ELSE LET q == CaptureEnd(c, p)
         IN  IF q = 0 THEN MatchesFrom(c, p + 1)
             ELSE <<[start |-> p, end |-> q + 1]>> \o MatchesFrom(c, q + 2)

\* extractAudioFiles: match[1] of every match
extractAudioFiles(content) ==
    LET ms == MatchesFrom(content, 1)
    IN  [i \in 1..Len(ms) |-> SubSeq(content, ms[i].start + 1, ms[i].end - 1)]

\* audioFile.split('/').pop()
RECURSIVE LastSlash(_, _)
LastSlash(s, i) ==
    IF i = 0 THEN 0 ELSE IF s[i] = SLASH THEN i ELSE LastSlash(s, i - 1)

BaseName(audioFile) ==
    SubSeq(audioFile, LastSlash(audioFile, Len(audioFile)) + 1, Len(audioFile))

\* `![[${fileName}]]`
EmbedOf(fileName) == <<OPEN>> \o fileName \o <<CLOSE>>

\* String.prototype.indexOf: first position of pat in c, or 0
IndexOf(c, pat) ==
    LET hits == {i \in 1..(Len(c) - Len(pat) + 1) :
                    SubSeq(c, i, i + Len(pat) - 1) = pat}
    IN  IF hits = {} THEN 0 ELSE CHOOSE i \in hits : \A j \in hits : i <= j

\* expansion of the replacement string: "$&" becomes the matched substring
\* (the answers drawn below hold no "$&", so they are inserted as they are)
RECURSIVE Expand(_, _)
Expand(repl, matched) ==
    IF repl = <<>> THEN <<>>
    ELSE (IF Head(repl) = DOLLAR_AMP THEN matched ELSE <<Head(repl)>>)
         \o Expand(Tail(repl), matched)

\* c.replace(pat, repl) with a string pattern: the first occurrence only
StringReplace(c, pat, repl) ==
    LET i == IndexOf(c, pat)
    IN  IF i = 0 THEN c
        ELSE SubSeq(c, 1, i - 1) \o Expand(repl, pat)
             \o SubSeq(c, i + Len(pat), Len(c))

\* `![[${fileName}]] #transcribed\n\n${transcription}\n\n${analysis}`
Replacement(fileName, transcription, analysis) ==
    EmbedOf(fileName) \o <<SP, MARK, NL, NL>> \o transcription \o <<NL, NL>>
    \o (IF analysis = Null THEN NULL_TEXT ELSE analysis)

\* the body of `if (transcription) { ... }` in processAudioFiles
Annotate(updatedContent, audioFile, transcription, analysis) ==
    LET fileName == BaseName(audioFile)
    IN  StringReplace(updatedContent, EmbedOf(fileName),
                      Replacement(fileName, transcription, analysis))

\* getAudioBlob: readBinary("/Attachements/" + filePath) succeeds iff that
\* path exists; any error is caught and null is returned
BlobPath(filePath) == <<ATTACHMENTS>> \o filePath
getAudioBlob(filePath, fs) == BlobPath(filePath) \in fs


(***************************************************************************)
(* Bounds and the inputs the model draws from                               *)
(***************************************************************************)
\* scans (batch or active-note) that may be started in one behaviour
MaxScans == 2
\* stop-recording uploads that may be in flight at once
MaxUploads == 1
\* the milliseconds that pass in one step of the clock
TickMs == 5000
\* chunks of a document of PassSpec, and the passes run on it
MaxChunks == 4
MaxPasses == 2

\* window.setTimeout(..., 10000)
DEBOUNCE_MS == 10000

ScanIds == 1..MaxScans

NameA == <<"a", EXT>>
NameB == <<"b", EXT>>
NameSA == <<"s", SLASH, "a", EXT>>
EmbA == EmbedOf(NameA)
EmbB == EmbedOf(NameB)
EmbSA == EmbedOf(NameSA)

\* what the remote services answer
T1 == <<"t">>
A1 == <<"todo">>
EmptyText == <<>>

VARIABLES
    status,           \* statusBar.status
    settings,         \* this.settings (apiKey, authHeader)
    vault,            \* the .md files under the watched folder: path -> text
    view,             \* view data of the active markdown leaf, or Null
    fs,               \* the paths at which the adapter finds an audio asset
    links,            \* the host's link-resolution index: basename -> path
    scans,            \* the invocations of runScanAndTranscribe /
                      \*   scanAndTranscribeActiveNote, by slot
    timers,           \* the armed timers of window.setTimeout
    debounceTimeout,  \* this.debounceTimeout (0 is null)
    sinceLast,        \* ms since the last watched modify signal (capped)
    owed,             \* bursts of watched signals minus timer-started scans
    firedQuiet,       \* every timer so far fired after a full quiet interval
    burst,            \* watched signals of the latest burst (2 stands for more)
    uploads,          \* stop-recording handlers waiting in sendAudioData
    layoutReady,      \* the onLayoutReady callback has run
    pdoc,             \* PassSpec: the text the file holds
    ppc, ppass,       \* PassSpec: position in processFile, number of the pass
    pfound,           \* PassSpec: what extractAudioFiles returned in this pass
    paudio,           \* PassSpec: the references still to go through
    pblob,            \* PassSpec: the latest getAudioBlob call and its result
    pupdated,         \* PassSpec: updatedContent
    ptexts,           \* PassSpec: the input text and the text after each pass
    pcalls,           \* PassSpec: replacements made, by pass
    panswer,          \* PassSpec: what the remote services answer
    stored,           \* what plugin.loadData() returns (the saved data.json)
    defaults,         \* the object DEFAULT_SETTINGS
    spc               \* SettingsSpec: position of the settings manager

mainVars == <<status, vault, view, scans, timers, debounceTimeout, sinceLast,
              owed, firedQuiet, burst, uploads, layoutReady>>
envVars  == <<settings, fs, links, stored, defaults, spc>>
passVars == <<pdoc, ppc, ppass, pfound, paudio, pblob, pupdated, ptexts,
              pcalls, panswer>>
vars == <<mainVars, envVars, passVars>>

(***************************************************************************)
(* Settings (src/unnamed/part_000).  An object is a function from its keys  *)
(* to their values.                                                        *)
(***************************************************************************)
EmptyObject == [k \in {} |-> ""]

DEFAULT_SETTINGS ==
    [apiKey |-> "",
     model |-> "whisper-1",
     language |-> "en",
     prompt |-> "",
     apiUrl |-> "https://api.openai.com/v1/audio/transcriptions",
     authHeader |-> "Basic XYZ12345",
     saveAudioFile |-> FALSE,
     saveAudioFilePath |-> "",
     createNewFileAfterRecording |-> FALSE,
     createNewFileAfterRecordingPath |-> "",
     debugMode |-> FALSE]

\* Object.assign(target, source) with an object as source: every own key of
\* source is written to target, in place; the value is target afterwards
ObjectAssign(target, source) ==
    [k \in DOMAIN target \cup DOMAIN source |->
        IF k \in DOMAIN source THEN source[k] ELSE target[k]]

\* what loadData() returns: nothing (null) when no data was ever saved
NoData == [exists |-> FALSE, data |-> EmptyObject]

\* Object.assign({}, settings, DEFAULT_SETTINGS): the sources swapped
LoadDefaultsLast(d, st) ==
    LET copy == IF st.exists THEN ObjectAssign(EmptyObject, st.data)
                ELSE EmptyObject
    IN  [settings |-> ObjectAssign(copy, d), defaults |-> d]

\* loadSettings: Object.assign({}, DEFAULT_SETTINGS, settings), where a null
\* source is skipped; the value returned and DEFAULT_SETTINGS afterwards
loadSettings(d, st) ==
    LET copy == ObjectAssign(EmptyObject, d)
    IN  [settings |-> IF st.exists THEN ObjectAssign(copy, st.data) ELSE copy,
         defaults |-> d]

(***************************************************************************)
(* Remote calls and the transcoder                                         *)
(***************************************************************************)
\* AudioHandler.transcribeAudio: text, or nothing when the call fails; the
\* credentials are checked before any request is made
TranscribeOutcomes(st) ==
    IF st.apiKey = "" /\ st.authHeader = ""
    THEN {[text |-> Null, calls |-> 0]}
    ELSE {[text |-> T1, calls |-> 1], [text |-> Null, calls |-> 1]}

\* analyzeTranscription without the pre-flight key check
AnalyzeNoKeyCheck(st) ==
    {[text |-> A1, notices |-> <<>>, calls |-> 1],
     [text |-> Null, notices |-> <<"AnalysisError">>, calls |-> 1]}

\* analyzeTranscription: the pre-flight key check, then the chat request;
\* every failure shows a Notice and returns null.  A1 stands for any text the
\* request returns (PassSpec also draws the empty text).
analyzeTranscription(st) ==
    IF st.apiKey = ""
    THEN {[text |-> Null, notices |-> <<"ApiKeyMissing">>, calls |-> 0]}
    ELSE {[text |-> A1, notices |-> <<>>, calls |-> 1],
          [text |-> Null, notices |-> <<"AnalysisError">>, calls |-> 1]}

\* convertAndCompressAudio: the promise resolves ("ok"), rejects on an ffmpeg
\* error ("reject"), or never settles when a callback throws ("hang")
ConvertOutcomes == {"ok", "reject", "hang"}

(***************************************************************************)
(* Scan invocations                                                        *)
(***************************************************************************)
\* remote counts the requests sent to the two services, chat those sent to
\* the chat-completions endpoint by analyzeTranscription.
\* pc: "idle" (slot unused), "read" (awaiting vault.read), "loop" (inside
\* processAudioFiles, awaiting the calls of one iteration), "write" (awaiting
\* vault.modify), "done" (returned), "failed" (ended by a rejected promise),
\* "hung" (awaiting a promise that never settles).  files and audioFiles hold
\* what is still to do, the current item first.
IdleScan ==
    [pc |-> "idle", kind |-> "none", files |-> <<>>, nfiles |-> 0,
     audioFiles |-> <<>>, updatedContent |-> <<>>, notices |-> <<>>,
     log |-> <<>>, reads |-> 0, writes |-> 0, remote |-> 0, chat |-> 0]

Ended(rec) == rec.pc \in {"done", "failed"}

FreeSlots == {s \in ScanIds : scans[s].pc = "idle"}
FreeSlot == CHOOSE s \in FreeSlots : \A r \in FreeSlots : s <= r

\* this.app.vault.getFiles().filter(...): the .md files under the folder
FileOrder == <<"f1", "f2">>
EligibleFiles == SelectSeq(FileOrder, LAMBDA f : f \in DOMAIN vault)

\* new Notice("Transcription and analysis complete."); updateStatus(Idle)
Complete(rec) ==
    [rec EXCEPT !.pc = "done", !.notices = @ \o <<"Complete">>,
                !.log = @ \o <<"Idle">>]

\* the for loop of runScanAndTranscribe after processFile has returned: the
\* next processFile call, or the end of the scan
AfterFile(rec) ==
    IF Len(rec.files) > 1
    THEN [rec EXCEPT !.pc = "read", !.files = Tail(@),
                     !.audioFiles = <<>>, !.updatedContent = <<>>]
    ELSE Complete([rec EXCEPT !.files = <<>>, !.audioFiles = <<>>,
                              !.updatedContent = <<>>])

\* updateStatus(Idle) placed inside the for loop over the files
StatusAfterEarly(rec) == IF rec.pc \in {"done", "read"} THEN "Idle" ELSE status

\* a scan that sets Idle when it ends leaves Idle; otherwise status is kept
StatusAfter(rec) == IF rec.pc = "done" THEN "Idle" ELSE status

\* runScanAndTranscribe without the `return` of the zero-files branch
RunScanNoReturn(s) ==
    LET files == EligibleFiles
        started == [IdleScan EXCEPT !.kind = "batch", !.files = files,
                                    !.nfiles = Len(files),
                                    !.log = <<"Processing">>]
    IN  IF files = <<>>
        THEN /\ scans' = [scans EXCEPT ![s] =
                    Complete([started EXCEPT !.notices = <<"NoFiles">>,
                                             !.log = @ \o <<"Idle">>])]
             /\ status' = "Idle"
        ELSE /\ scans' = [scans EXCEPT ![s] = [started EXCEPT !.pc = "read"]]
             /\ status' = "Processing"

\* runScanAndTranscribe behind an in-flight flag: it starts only when no other
\* scan is suspended
RunScanExclusive(s) ==
    LET files == EligibleFiles
        started == [IdleScan EXCEPT !.kind = "batch", !.files = files,
                                    !.nfiles = Len(files),
                                    !.log = <<"Processing">>]
    IN  /\ \A r \in ScanIds : scans[r].pc \notin {"read", "loop", "write"}
        /\ IF files = <<>>
           THEN /\ scans' = [scans EXCEPT ![s] =
                       [started EXCEPT !.pc = "done",
                                       !.notices = <<"NoFiles">>,
                                       !.log = @ \o <<"Idle">>]]
                /\ status' = "Idle"
           ELSE /\ scans' = [scans EXCEPT ![s] =
                       [started EXCEPT !.pc = "read"]]
                /\ status' = "Processing"

\* runScanAndTranscribe up to its first await (the vault.read of processFile)
runScanAndTranscribe(s) ==
    LET files == EligibleFiles
        started == [IdleScan EXCEPT !.kind = "batch", !.files = files,
                                    !.nfiles = Len(files),
                                    !.log = <<"Processing">>]
    IN  IF files = <<>>
        THEN /\ scans' = [scans EXCEPT ![s] =
                    [started EXCEPT !.pc = "done", !.notices = <<"NoFiles">>,
                                    !.log = @ \o <<"Idle">>]]
             /\ status' = "Idle"
        ELSE /\ scans' = [scans EXCEPT ![s] = [started EXCEPT !.pc = "read"]]
             /\ status' = "Processing"

\* scanAndTranscribeActiveNote up to its first await (getAudioBlob)
scanAndTranscribeActiveNote(s) ==
    LET started == [IdleScan EXCEPT !.kind = "active",
                                    !.log = <<"Processing">>]
        quit(n) == [started EXCEPT !.pc = "done", !.notices = <<n>>,
                                   !.log = @ \o <<"Idle">>]
    IN  IF view = Null
        THEN /\ scans' = [scans EXCEPT ![s] = quit("NoActiveNote")]
             /\ status' = "Idle"
        ELSE IF extractAudioFiles(view) = <<>>
        THEN /\ scans' = [scans EXCEPT ![s] = quit("NoAudio")]
             /\ status' = "Idle"
        ELSE /\ scans' = [scans EXCEPT ![s] =
                    [started EXCEPT !.pc = "loop",
                                    !.audioFiles = extractAudioFiles(view),
                                    !.updatedContent = view]]
             /\ status' = "Processing"

\* One iteration of the for loop of processAudioFiles on the current
\* reference: the records the invocation can be in when the iteration ends.
Iteration(rec) ==
    LET audioFile == Head(rec.audioFiles)
        next(r) == [r EXCEPT !.audioFiles = Tail(@)]
    IN  IF ~getAudioBlob(audioFile, fs)
        THEN {next(rec)}
        ELSE {[rec EXCEPT !.pc = "failed"], [rec EXCEPT !.pc = "hung"]}
             \cup UNION {
                IF ~Truthy(tr.text)
                THEN {next([rec EXCEPT !.remote = @ + tr.calls])}
                ELSE {next([rec EXCEPT
                         !.remote = @ + tr.calls + an.calls,
                         !.chat = @ + an.calls,
                         !.notices = @ \o an.notices,
                         !.updatedContent =
                             Annotate(@, audioFile, tr.text, an.text)])
                      : an \in analyzeTranscription(settings)}
                : tr \in TranscribeOutcomes(settings)}

\* what follows the return of processAudioFiles: the vault.modify of
\* processFile, or the rest of scanAndTranscribeActiveNote
AfterLoop(rec) ==
    IF rec.pc # "loop" \/ rec.audioFiles # <<>> THEN rec
    ELSE IF rec.kind = "batch" THEN [rec EXCEPT !.pc = "write"]
    ELSE Complete(rec)

(***************************************************************************)
(* The debounce timer                                                      *)
(***************************************************************************)
NewTimerId(tm) ==
    CHOOSE i \in 1..(Cardinality(tm) + 1) :
        /\ \A t \in tm : t.id # i
        /\ \A j \in 1..(i - 1) : \E t \in tm : t.id = j

\* debounceRunScanAndTranscribe without the clearTimeout
DebounceNoClear(tm, dt) ==
    LET id == NewTimerId(tm)
    IN  [timers |-> tm \cup {[id |-> id, remaining |-> DEBOUNCE_MS]},
         debounceTimeout |-> id]

\* debounceRunScanAndTranscribe: the timers and this.debounceTimeout after it
debounceRunScanAndTranscribe(tm, dt) ==
    LET cleared == IF dt # 0 THEN {t \in tm : t.id # dt} ELSE tm
        id == NewTimerId(cleared)
    IN  [timers |-> cleared \cup {[id |-> id, remaining |-> DEBOUNCE_MS]},
         debounceTimeout |-> id]

\* the vault "modify" listener of onload; watched is
\* file.path.startsWith("Private/Dziennik 2025/")
ModifyListener(watched) ==
    IF watched
    THEN LET d == debounceRunScanAndTranscribe(timers, debounceTimeout)
         IN  /\ timers' = d.timers
             /\ debounceTimeout' = d.debounceTimeout
             /\ sinceLast' = 0
             /\ owed' = IF sinceLast >= DEBOUNCE_MS THEN owed + 1 ELSE owed
             /\ burst' = IF sinceLast >= DEBOUNCE_MS THEN 1
                         ELSE Min(2, burst + 1)
             /\ UNCHANGED firedQuiet
    ELSE UNCHANGED <<timers, debounceTimeout, sinceLast, owed, firedQuiet,
                     burst>>

timerVars == <<timers, debounceTimeout, sinceLast, owed, firedQuiet, burst>>

(***************************************************************************)
(* Actions                                                                 *)
(***************************************************************************)
\* app.workspace.onLayoutReady(() => this.runScanAndTranscribe())
LayoutReady ==
    /\ ~layoutReady
    /\ FreeSlots # {}
    /\ layoutReady' = TRUE
    /\ runScanAndTranscribe(FreeSlot)
    /\ UNCHANGED <<vault, view, timerVars, uploads, envVars, passVars>>

\* a file of the vault is modified from outside the plugin
VaultModify ==
    /\ \E watched \in BOOLEAN : ModifyListener(watched)
    /\ UNCHANGED <<status, vault, view, scans, uploads, layoutReady,
                   envVars, passVars>>

\* TickMs pass and no timer comes due
Tick ==
    /\ timers # {} \/ sinceLast < DEBOUNCE_MS
    /\ \A t \in timers : t.remaining > TickMs
    /\ timers' = {[t EXCEPT !.remaining = @ - TickMs] : t \in timers}
    /\ sinceLast' = Min(DEBOUNCE_MS, sinceLast + TickMs)
    /\ UNCHANGED <<status, vault, view, scans, debounceTimeout, owed,
                   firedQuiet, burst, uploads, layoutReady, envVars, passVars>>

\* the clock reaches the deadline of the earliest timer and its callback runs
TimerFire ==
    /\ FreeSlots # {}
    /\ \E t \in timers :
        /\ t.remaining <= TickMs
        /\ \A u \in timers : t.remaining <= u.remaining
        /\ timers' = {[u EXCEPT !.remaining = @ - t.remaining] :
                        u \in timers \ {t}}
        /\ sinceLast' = Min(DEBOUNCE_MS, sinceLast + t.remaining)
        /\ firedQuiet' = (firedQuiet /\ sinceLast + t.remaining >= DEBOUNCE_MS)
    /\ owed' = owed - 1
    /\ runScanAndTranscribe(FreeSlot)
    /\ UNCHANGED <<vault, view, debounceTimeout, burst, uploads, layoutReady,
                   envVars, passVars>>

\* the same without a clock: the quiet interval elapses with no further
\* signal and the callback of an armed timer runs
QuietFire ==
    /\ FreeSlots # {}
    /\ \E t \in timers : timers' = timers \ {t}
    /\ sinceLast' = DEBOUNCE_MS
    /\ owed' = owed - 1
    /\ runScanAndTranscribe(FreeSlot)
    /\ UNCHANGED <<vault, view, debounceTimeout, firedQuiet, burst, uploads,
                   layoutReady, envVars, passVars>>

\* the command "scan-and-transcribe"
ScanCommand ==
    /\ FreeSlots # {}
    /\ scanAndTranscribeActiveNote(FreeSlot)
    /\ UNCHANGED <<vault, view, timerVars, uploads, layoutReady,
                   envVars, passVars>>

\* the command "start-stop-recording" up to its first await
StartStopCommand ==
    /\ IF status # "Recording"
       THEN status' = "Recording" /\ UNCHANGED uploads
       ELSE /\ uploads < MaxUploads
            /\ status' = "Processing"
            /\ uploads' = uploads + 1
    /\ UNCHANGED <<vault, view, scans, timerVars, layoutReady,
                   envVars, passVars>>

\* sendAudioData has returned in the stop branch of the command
UploadDone ==
    /\ uploads > 0
    /\ uploads' = uploads - 1
    /\ status' = "Idle"
    /\ UNCHANGED <<vault, view, scans, timerVars, layoutReady,
                   envVars, passVars>>

\* processFile: vault.read returns, the references are extracted
ReadFile(s) ==
    LET rec == scans[s]
        noteContent == vault[Head(rec.files)]
        audioFiles == extractAudioFiles(noteContent)
        read == [rec EXCEPT !.reads = @ + 1]
        after == IF audioFiles = <<>> THEN AfterFile(read)
                 ELSE [read EXCEPT !.pc = "loop", !.audioFiles = audioFiles,
                                   !.updatedContent = noteContent]
    IN  /\ rec.pc = "read"
        /\ scans' = [scans EXCEPT ![s] = after]
        /\ status' = StatusAfter(after)
        /\ UNCHANGED <<vault, view, timerVars, uploads, layoutReady,
                       envVars, passVars>>

\* processAudioFiles: one iteration of the loop
ProcessRef(s) ==
    LET rec == scans[s]
    IN  /\ rec.pc = "loop"
        /\ \E r \in Iteration(rec) :
            LET after == AfterLoop(r)
            IN  /\ scans' = [scans EXCEPT ![s] = after]
                /\ status' = StatusAfter(after)
                /\ view' = IF after.pc = "done" THEN rec.updatedContent
                           ELSE view
        /\ UNCHANGED <<vault, timerVars, uploads, layoutReady,
                       envVars, passVars>>

\* processFile: vault.modify writes the text and raises "modify"
WriteBack(s) ==
    LET rec == scans[s]
        after == AfterFile([rec EXCEPT !.writes = @ + 1])
    IN  /\ rec.pc = "write"
        /\ vault' = [vault EXCEPT ![Head(rec.files)] = rec.updatedContent]
        /\ ModifyListener(TRUE)
        /\ scans' = [scans EXCEPT ![s] = after]
        /\ status' = StatusAfter(after)
        /\ UNCHANGED <<view, uploads, layoutReady, envVars, passVars>>

\* an invocation that has returned (or was ended by a rejection) is gone:
\* nothing holds its promise, and its slot is free for a later invocation
Return(s) ==
    /\ Ended(scans[s])
    /\ scans' = [scans EXCEPT ![s] = IdleScan]
    /\ UNCHANGED <<status, vault, view, timerVars, uploads, layoutReady,
                   envVars, passVars>>

(***************************************************************************)
(* The plugin after onload                                                 *)
(***************************************************************************)
VaultOptions ==
    { <<>>,
      [f \in {"f1"} |-> EmbA \o <<NL>> \o EmbB],
      [f \in {"f1", "f2"} |-> IF f = "f1" THEN <<"x">> ELSE EmbA] }

ViewOptions == {Null, EmbA}

FsOptions == {{BlobPath(NameA)}}

SettingsOptions ==
    {[apiKey |-> "", authHeader |-> "Basic XYZ12345"],
     [apiKey |-> "sk", authHeader |-> "Basic XYZ12345"]}

MainStart ==
    /\ status = "Idle"
    /\ scans = [s \in ScanIds |-> IdleScan]
    /\ timers = {}
    /\ debounceTimeout = 0
    /\ sinceLast = DEBOUNCE_MS
    /\ owed = 0
    /\ firedQuiet = TRUE
    /\ burst = 0
    /\ uploads = 0
    /\ layoutReady = FALSE

\* no getAudioBlob call yet
NoBlob == [filePath |-> <<>>, found |-> FALSE]

\* the settings manager is not looked at
SettingsIdle ==
    /\ stored = NoData
    /\ defaults = DEFAULT_SETTINGS
    /\ spc = "off"

PassIdle ==
    /\ pdoc = <<>>
    /\ ppc = "off"
    /\ ppass = 0
    /\ pfound = <<>>
    /\ paudio = <<>>
    /\ pblob = NoBlob
    /\ pupdated = <<>>
    /\ ptexts = <<>>
    /\ panswer = Null
    /\ pcalls = <<>>

Init ==
    /\ MainStart
    /\ vault \in VaultOptions
    /\ view \in ViewOptions
    /\ fs \in FsOptions
    /\ links = {}
    /\ settings \in SettingsOptions
    /\ SettingsIdle
    /\ PassIdle

ScanSteps ==
    \/ \E s \in ScanIds : ReadFile(s)
    \/ \E s \in ScanIds : ProcessRef(s)
    \/ \E s \in ScanIds : WriteBack(s)

\* the scan pipeline with its triggers and the clock of the debounce timer
Next ==
    \/ LayoutReady
    \/ VaultModify
    \/ Tick
    \/ TimerFire
    \/ ScanCommand
    \/ ScanSteps

Spec == Init /\ [][Next]_vars

\* the scan pipeline with the recording command, without a clock and with
\* no modification of the vault but the plugin's own (which arm the timer)
StatusNext ==
    \/ LayoutReady
    \/ QuietFire
    \/ ScanCommand
    \/ StartStopCommand
    \/ UploadDone
    \/ ScanSteps

StatusInit == Init /\ settings.apiKey # ""

StatusSpec == StatusInit /\ [][StatusNext]_vars

\* the plugin left alone: nothing outside it modifies the vault and no
\* command is used.  The host runs the workspace-ready callback, time
\* passes, due timers fire and every awaited read, call and write settles or
\* hangs as the transcoder allows.
QuietNext ==
    \/ LayoutReady
    \/ Tick
    \/ TimerFire
    \/ ScanSteps
    \/ \E s \in ScanIds : Return(s)

QuietInit == Init /\ view = Null

QuietSpec ==
    /\ QuietInit
    /\ [][QuietNext]_vars
    /\ WF_vars(LayoutReady)
    /\ WF_vars(Tick)
    /\ WF_vars(TimerFire)
    /\ \A s \in ScanIds :
        /\ WF_vars(ReadFile(s))
        /\ WF_vars(ProcessRef(s))
        /\ WF_vars(WriteBack(s))
        /\ WF_vars(Return(s))

\* the scan pipeline of a plugin whose settings hold no API key, with every
\* asset in place, without a clock
KeyNext ==
    \/ LayoutReady
    \/ QuietFire
    \/ ScanCommand
    \/ ScanSteps

KeyInit ==
    /\ MainStart
    /\ vault \in VaultOptions
    /\ view \in ViewOptions
    /\ fs = {BlobPath(NameA), BlobPath(NameB)}
    /\ links = {}
    /\ settings = [apiKey |-> "", authHeader |-> "Basic XYZ12345"]
    /\ SettingsIdle
    /\ PassIdle

KeySpec == KeyInit /\ [][KeyNext]_vars

(***************************************************************************)
(* Scan passes over one document with fixed assets and fixed answers:      *)
(* processFile run MaxPasses times in succession on the same file          *)
(***************************************************************************)
Chunks == {EmbA, EmbSA, <<SP, MARK>>, <<NL>>, <<"x">>}

RECURSIVE Flatten(_)
Flatten(cs) == IF cs = <<>> THEN <<>> ELSE Head(cs) \o Flatten(Tail(cs))

Docs == {Flatten(cs) : cs \in UNION {[1..n -> Chunks] : n \in 0..MaxChunks}}

OtherPath == <<"o", SLASH, "a", EXT>>

\* where the assets are and what the link index answers: all under the
\* attachment folder / the qualified one at its own path / the bare one
\* reachable through the link index only
EnvOptions ==
    {[fs |-> {BlobPath(NameA), BlobPath(NameSA)}, links |-> {}],
     [fs |-> {BlobPath(NameA), NameSA}, links |-> {}],
     [fs |-> {OtherPath}, links |-> {<<NameA, OtherPath>>}]}

AnswerOptions ==
    [transcription : {T1, Null}, analysis : {A1, EmptyText, Null}]

PassInit ==
    /\ MainStart
    /\ vault = <<>>
    /\ view = Null
    /\ settings = [apiKey |-> "sk", authHeader |-> "Basic XYZ12345"]
    /\ SettingsIdle
    /\ \E e \in EnvOptions : fs = e.fs /\ links = e.links
    /\ pdoc \in Docs
    /\ panswer \in AnswerOptions
    /\ ppc = "read"
    /\ ppass = 1
    /\ pfound = <<>>
    /\ paudio = <<>>
    /\ pblob = NoBlob
    /\ pupdated = <<>>
    /\ ptexts = <<pdoc>>
    /\ pcalls = <<>>

\* processFile: vault.read, extractAudioFiles
PassRead ==
    /\ ppc = "read"
    /\ pfound' = extractAudioFiles(pdoc)
    /\ paudio' = pfound'
    /\ pupdated' = pdoc
    /\ pcalls' = Append(pcalls, 0)
    /\ ppc' = "loop"
    /\ UNCHANGED <<pdoc, ppass, ptexts, pblob>>
    /\ UNCHANGED <<mainVars, envVars, panswer>>

\* processAudioFiles: one iteration, with the fixed answers
PassRef ==
    /\ ppc = "loop"
    /\ paudio # <<>>
    /\ LET audioFile == Head(paudio)
           audioBlob == getAudioBlob(audioFile, fs)
           annotated == audioBlob /\ Truthy(panswer.transcription)
       IN  /\ pblob' = [filePath |-> audioFile, found |-> audioBlob]
           /\ pupdated' = IF annotated
                          THEN Annotate(pupdated, audioFile,
                                        panswer.transcription, panswer.analysis)
                          ELSE pupdated
           /\ pcalls' = [pcalls EXCEPT ![ppass] = IF annotated THEN @ + 1 ELSE @]
    /\ paudio' = Tail(paudio)
    /\ UNCHANGED <<pdoc, ppc, ppass, pfound, ptexts>>
    /\ UNCHANGED <<mainVars, envVars, panswer>>

\* processFile returns: at once when nothing was extracted (the text stays),
\* after vault.modify(file, updatedContent) otherwise
PassWrite ==
    /\ ppc = "loop"
    /\ paudio = <<>>
    /\ pdoc' = IF pfound = <<>> THEN pdoc ELSE pupdated
    /\ ptexts' = Append(ptexts, pdoc')
    /\ pupdated' = <<>>
    /\ IF ppass < MaxPasses
       THEN ppass' = ppass + 1 /\ ppc' = "read"
       ELSE ppass' = ppass /\ ppc' = "end"
    /\ UNCHANGED <<pfound, paudio, pblob, pcalls>>
    /\ UNCHANGED <<mainVars, envVars, panswer>>

PassNext == PassRead \/ PassRef \/ PassWrite

PassSpec == PassInit /\ [][PassNext]_vars

(***************************************************************************)
(* The settings manager: the plugin starts and loads its settings, saves   *)
(* them, and starts again                                                  *)
(***************************************************************************)
\* the keys a saved record may hold, each with the values drawn for it;
\* "extra" is a key DEFAULT_SETTINGS does not have
ApiKeyStored == {EmptyObject, [k \in {"apiKey"} |-> ""],
                 [k \in {"apiKey"} |-> "sk"]}
LanguageStored == {EmptyObject, [k \in {"language"} |-> "en"],
                   [k \in {"language"} |-> "pl"]}
DebugStored == {EmptyObject, [k \in {"debugMode"} |-> FALSE],
                [k \in {"debugMode"} |-> TRUE]}
ExtraStored == {EmptyObject, [k \in {"extra"} |-> "v"]}

StoredOptions ==
    {NoData} \cup
    {[exists |-> TRUE,
      data |-> ObjectAssign(ObjectAssign(ObjectAssign(a, l), d), e)] :
        a \in ApiKeyStored, l \in LanguageStored, d \in DebugStored,
        e \in ExtraStored}

SettingsInit ==
    /\ MainStart
    /\ vault = <<>>
    /\ view = Null
    /\ fs = {}
    /\ links = {}
    /\ PassIdle
    /\ settings = EmptyObject
    /\ stored \in StoredOptions
    /\ defaults = DEFAULT_SETTINGS
    /\ spc = "new"

\* onload: this.settings = await this.settingsManager.loadSettings()
LoadSettings ==
    /\ spc \in {"new", "saved"}
    /\ LET r == loadSettings(defaults, stored)
       IN  settings' = r.settings /\ defaults' = r.defaults
    /\ spc' = "loaded"
    /\ UNCHANGED <<mainVars, passVars, fs, links, stored>>

\* saveSettings: saveData(this.settings)
SaveSettings ==
    /\ spc = "loaded"
    /\ stored' = [exists |-> TRUE, data |-> settings]
    /\ spc' = "saved"
    /\ UNCHANGED <<mainVars, passVars, fs, links, settings, defaults>>

SettingsNext == LoadSettings \/ SaveSettings

SettingsSpec == SettingsInit /\ [][SettingsNext]_vars

(***************************************************************************)
(* Properties                                                              *)
(***************************************************************************)
Last(q) == q[Len(q)]
Range(q) == {q[i] : i \in 1..Len(q)}
States == {"Idle", "Recording", "Processing"}

\* C1: a second pass over the output of the first pass, with the same assets
\* and answers, leaves the text as it is and annotates no reference.
C1_Idempotent ==
    Len(ptexts) >= 3 => ptexts[3] = ptexts[2] /\ pcalls[2] = 0

\* C2: a scan that has ended has gone through every reference of every
\* document: no reference after the current one and no document after the
\* current one is left when it ends, also when it ends on a failure.
C2_FailureIsolated ==
    \A s \in ScanIds :
        Ended(scans[s]) =>
            Len(scans[s].audioFiles) <= 1 /\ Len(scans[s].files) <= 1

\* C3: a scan that has ended has set the status back to Idle as its last
\* status update.
C3_EndsIdle ==
    \A s \in ScanIds : Ended(scans[s]) => Last(scans[s].log) = "Idle"

\* C4: at most one debounce timer is armed; it is due one full quiet interval
\* after the latest watched signal; one is armed exactly when a burst of
\* signals has not yet been answered by its one scan; and no timer ever fired
\* before the quiet interval had passed.
C4_Debounce ==
    /\ Cardinality(timers) <= 1
    /\ owed = Cardinality(timers)
    /\ \A t \in timers : t.remaining + sinceLast = DEBOUNCE_MS
    /\ firedQuiet

\* a burst of at least two signals has been answered by its scan
C4_Witness ==
    /\ burst = 2
    /\ timers = {}
    /\ owed = 0
    /\ ~layoutReady
    /\ \E s \in ScanIds : scans[s].kind = "batch"

\* C5: a batch scan that found no eligible document has gone Processing ->
\* Idle, has shown the one "no files found" notice and nothing else, and has
\* read no document, made no remote call and written no document.
C5_NoFiles ==
    \A s \in ScanIds :
        scans[s].kind = "batch" /\ scans[s].nfiles = 0 =>
            /\ scans[s].pc = "done"
            /\ scans[s].notices = <<"NoFiles">>
            /\ scans[s].log = <<"Processing", "Idle">>
            /\ scans[s].reads = 0
            /\ scans[s].remote = 0
            /\ scans[s].writes = 0

C5_Witness ==
    \E s \in ScanIds :
        scans[s].kind = "batch" /\ scans[s].nfiles = 0 /\ scans[s].pc = "done"

\* position i ends a reference that is suffixed with the processed marker
MarkedRefAt(c, i) ==
    /\ i + 2 <= Len(c)
    /\ c[i] = CLOSE
    /\ c[i + 1] = SP
    /\ c[i + 2] = MARK

SameLine(c, i, j) == NoNL(c, Min(i, j), Max(i, j))

\* an embed of a plain name ending in .m4a spans p..q+1
PlainEmbed(c, p, q) ==
    /\ c[p] = OPEN
    /\ p < q
    /\ q + 1 <= Len(c)
    /\ c[q] = EXT
    /\ c[q + 1] = CLOSE
    /\ \A k \in (p + 1)..(q - 1) : c[k] \notin {OPEN, CLOSE, EXT, MARK, NL, SP}

\* C6: extractAudioFiles returns nothing from a line that holds a reference
\* suffixed with the marker, and returns every .m4a embed of a line without
\* a marker.
C6_Exclusion ==
    ppc = "loop" =>
        LET c == pdoc
            ms == MatchesFrom(c, 1)
        IN  /\ \A n \in 1..Len(pfound) :
                ~\E i \in 1..Len(c) :
                    MarkedRefAt(c, i) /\ SameLine(c, i, ms[n].start)
            /\ \A p \in 1..Len(c) : \A q \in 1..Len(c) :
                (/\ PlainEmbed(c, p, q)
                 /\ ~\E j \in 1..Len(c) : c[j] = MARK /\ SameLine(c, j, p))
                => SubSeq(c, p + 1, q) \in Range(pfound)

\* C7: a text prefix + ![[ref]] + suffix with one unprocessed reference whose
\* asset is read and whose transcript T is returned is rewritten into
\* prefix + ![[ref]] + " #transcribed" + block + suffix, where block holds T.
C7_Rewrite ==
    Len(ptexts) >= 2 =>
        LET d == ptexts[1]
            out == ptexts[2]
            ms == MatchesFrom(d, 1)
        IN  Len(ms) = 1 =>
            LET ref == SubSeq(d, ms[1].start + 1, ms[1].end - 1)
                prefix == SubSeq(d, 1, ms[1].start - 1)
                suffix == SubSeq(d, ms[1].end + 1, Len(d))
                head == prefix \o EmbedOf(ref) \o <<SP, MARK>>
            IN  getAudioBlob(ref, fs) /\ Truthy(panswer.transcription) =>
                /\ Len(out) >= Len(head) + Len(suffix)
                /\ SubSeq(out, 1, Len(head)) = head
                /\ SubSeq(out, Len(out) - Len(suffix) + 1, Len(out)) = suffix
                /\ IndexOf(SubSeq(out, Len(head) + 1, Len(out) - Len(suffix)),
                           panswer.transcription) # 0

\* the resolution order of the Path Resolver: the exact path for a reference
\* with an internal separator, the link index for a bare name, the fallback
\* directory plus the basename
ResolvesInOrder(ref) ==
    LET qualified == LastSlash(ref, Len(ref)) > 0
    IN  \/ qualified /\ ref \in fs
        \/ ~qualified /\ \E l \in links : l[1] = ref /\ l[2] \in fs
        \/ BlobPath(BaseName(ref)) \in fs

\* C8: a reference is found exactly when the exact path (qualified
\* reference), the link index (bare name) or the fallback directory names an
\* existing asset.
C8_ResolveOrder ==
    pblob # NoBlob => (pblob.found <=> ResolvesInOrder(pblob.filePath))

\* C9 as stated: the status is one of the three and changes only along
\* Idle -> Recording, Recording -> Processing, Processing -> Idle.
C9_ThreeTransitions ==
    /\ status \in States
    /\ [][/\ status' \in States
          /\ status' # status =>
                <<status, status'>> \in {<<"Idle", "Recording">>,
                                         <<"Recording", "Processing">>,
                                         <<"Processing", "Idle">>}]_vars

ScanBegins == \E s \in ScanIds : scans[s].pc = "idle" /\ scans'[s].pc # "idle"
ScanCompletes ==
    \E s \in ScanIds : scans[s].pc # "done" /\ scans'[s].pc = "done"

\* C9 amended: the status is one of the three; it becomes Recording only by
\* the start/stop command used while it is not Recording; it becomes
\* Processing only by the stop of a recording or by a scan that begins (from
\* Idle too); it becomes Idle only when an upload returns or a scan completes,
\* and a scan that completes always leaves it Idle.
C9_StatusSteps ==
    /\ status \in States
    /\ [][/\ status' \in States
          /\ status' # status =>
             \/ /\ status' = "Recording"
                /\ scans' = scans
                /\ uploads' = uploads
             \/ /\ status' = "Processing"
                /\ \/ status = "Recording" /\ uploads' = uploads + 1
                   \/ ScanBegins
             \/ /\ status' = "Idle"
                /\ uploads' = uploads - 1 \/ ScanCompletes
          /\ ScanCompletes => status' = "Idle"
          /\ ScanBegins => status' \in {"Processing", "Idle"}]_vars

\* the start/stop command was used while a scan is inside processAudioFiles
C9_Witness ==
    /\ status = "Recording"
    /\ \E s \in ScanIds : scans[s].pc = "loop"

\* C10: an invocation of a scan that has completed has shown exactly one
\* notice.
C10_OneNotice ==
    \A s \in ScanIds : scans[s].pc = "done" => Len(scans[s].notices) = 1

C12_AnalysisAtEnd ==
    Len(ptexts) >= 2 /\ pcalls[1] >= 1 =>
        LET out == ptexts[2]
            an == panswer.analysis
        IN  IF Truthy(an)
            THEN /\ Len(out) >= Len(an)
                 /\ SubSeq(out, Len(out) - Len(an) + 1, Len(out)) = an
            ELSE Range(NULL_TEXT) \cap Range(out) = {}
\* C13: after loadSettings, the settings hold exactly the keys of the
\* defaults and of the stored record, each with the stored value when the
\* stored record has the key and with the default otherwise; and
\* DEFAULT_SETTINGS is what it was.
C13_Defaulting ==
    /\ defaults = DEFAULT_SETTINGS
    /\ spc = "loaded" =>
        LET st == IF stored.exists THEN stored.data ELSE EmptyObject
        IN  /\ DOMAIN settings = DOMAIN DEFAULT_SETTINGS \cup DOMAIN st
            /\ \A k \in DOMAIN settings :
                settings[k] = IF k \in DOMAIN st THEN st[k]
                              ELSE DEFAULT_SETTINGS[k]

\* a stored record with some keys only was loaded: a stored key overrides its
\* default, a missing key falls back, an unknown key is kept
C13_Witness ==
    /\ spc = "loaded"
    /\ stored.exists
    /\ DOMAIN stored.data = {"apiKey", "debugMode", "extra"}
    /\ settings.apiKey = "sk"
    /\ settings.debugMode = TRUE
    /\ settings.language = "en"
    /\ settings.extra = "v"
\* the occurrences of a symbol in a text
Count(c, sym) == Cardinality({i \in 1..Len(c) : c[i] = sym})

\* pat stands in c at position i
OccursAt(c, i, pat) ==
    /\ i + Len(pat) - 1 <= Len(c)
    /\ SubSeq(c, i, i + Len(pat) - 1) = pat

\* C14: after one pass over a text without marker in which the same readable
\* reference occurs k >= 2 times (and no other), with a transcript returned,
\* each of the k occurrences is followed by the marker, and the text holds
\* exactly k markers and k transcripts.
C14_NoDouble ==
    Len(ptexts) >= 2 =>
        LET d == ptexts[1]
            out == ptexts[2]
            found == extractAudioFiles(d)
            k == Len(found)
        IN  (/\ k >= 2
             /\ \A i \in 1..k : found[i] = NameA
             /\ Count(d, MARK) = 0
             /\ getAudioBlob(NameA, fs)
             /\ Truthy(panswer.transcription))
            => /\ Count(out, MARK) = k
               /\ Count(out, Head(panswer.transcription)) = k
               /\ \A i \in 1..Len(out) :
                    OccursAt(out, i, EmbA) =>
                        OccursAt(out, i + Len(EmbA), <<SP, MARK>>)
\* a scan is waiting for a read, a remote call or a write
Suspended(rec) == rec.pc \in {"read", "loop", "write"}

\* C15: while a scan is suspended, the workspace-ready event, a due debounce
\* timer and the command each still start another scan; and a write-back
\* stores the writer's own text whatever the file holds by then, so that of
\* two scans that read the same text the later writer undoes the earlier.
C15_Overlap ==
    /\ []((\E s \in ScanIds : Suspended(scans[s])) /\ FreeSlots # {} =>
            /\ ~layoutReady => ENABLED LayoutReady
            /\ (\E t \in timers : t.remaining <= TickMs) => ENABLED TimerFire
            /\ ENABLED ScanCommand)
    /\ [][\A s \in ScanIds :
            scans[s].pc = "write" /\ scans'[s] # scans[s] =>
                vault'[Head(scans[s].files)] = scans[s].updatedContent]_vars

\* two scans have read the same text of the same document, both have had its
\* unmarked reference transcribed, and both are about to write, each a text
\* of its own
C15_Witness ==
    \E s, r \in ScanIds :
        /\ s # r
        /\ scans[s].kind = "batch" /\ scans[r].kind = "batch"
        /\ scans[s].pc = "write" /\ scans[r].pc = "write"
        /\ Head(scans[s].files) = Head(scans[r].files)
        /\ scans[s].writes = 0 /\ scans[r].writes = 0
        /\ scans[s].remote >= 1 /\ scans[r].remote >= 1
        /\ scans[s].updatedContent # vault[Head(scans[s].files)]
        /\ scans[r].updatedContent # vault[Head(scans[s].files)]
        /\ scans[s].updatedContent # scans[r].updatedContent
\* C16: after a pass over a text without marker, every extracted reference
\* whose asset could not be read, or whose transcription returned nothing,
\* is not followed by the marker in the text written and is extracted again
\* from that text by the next pass.
C16_RetryNextScan ==
    Len(ptexts) >= 2 =>
        LET d == ptexts[1]
            out == ptexts[2]
            found == extractAudioFiles(d)
            again == extractAudioFiles(out)
        IN  Count(d, MARK) = 0 =>
            \A i \in 1..Len(found) :
                ~getAudioBlob(found[i], fs) \/ ~Truthy(panswer.transcription)
                => /\ found[i] \in Range(again)
                   /\ IndexOf(out, EmbedOf(found[i]) \o <<SP, MARK>>) = 0
\* C17: when nothing outside the plugin modifies the vault, the plugin
\* eventually starts no further scan.
C17_Quiescent == <>[][~ScanBegins]_vars
====
